---------------------------- MODULE Spec2Model ----------------------------
(***************************************************************************)
(* mirrors-countme: ingestion of access-log lines into the countme_raw     *)
(* table (parse.py, matchers.py, writers.py) and weekly aggregation of     *)
(* countme_raw into countme_totals (totals.py, util.py).                   *)
(***************************************************************************)
EXTENDS Integers, Sequences, FiniteSets, Bags, TLC

(***************************************************************************)
(* Bounds of the model.                                                    *)
(***************************************************************************)
MaxRows == 4       \* rows the countme_raw table may hold
MaxLines == 1      \* lines one run of parse() reads
MaxFile == 2       \* lines of the file object a LogMatcher iterates over
MaxWeek == 3       \* weeknum() is called for the weeks -MaxWeek .. MaxWeek
MaxQuery == 7      \* characters of the query string parse_querydict() is given

(***************************************************************************)
(* constants.py                                                            *)
(***************************************************************************)
DAY_LEN == 24 * 60 * 60
WEEK_LEN == 7 * DAY_LEN
COUNTME_EPOCH == 345600
LOG_JITTER_WINDOW == 600
COUNTME_START_WEEKNUM == 2614

(***************************************************************************)
(* util.py: weeknum() is Python floor division.                            *)
(***************************************************************************)
\* weeknum with a division that truncates toward zero
weeknum_trunc(timestamp) ==
    IF timestamp >= COUNTME_EPOCH THEN (timestamp - COUNTME_EPOCH) \div WEEK_LEN
    ELSE -((COUNTME_EPOCH - timestamp) \div WEEK_LEN)

weeknum(timestamp) == (timestamp - COUNTME_EPOCH) \div WEEK_LEN

\* countme_delete_totals.py: weeknum2tm without the epoch
weeknum2tm_noepoch(w) == w * WEEK_LEN

\* countme_delete_totals.py: weeknum2tm
weeknum2tm(w) == COUNTME_EPOCH + w * WEEK_LEN

\* start_ts of week_iter / week_count: weeknum * WEEK_LEN + COUNTME_EPOCH
week_start(w) == w * WEEK_LEN + COUNTME_EPOCH

\* SQL integer division truncates toward zero (BucketSelect.weeknum).
SqlDiv(a, b) == IF a >= 0 THEN a \div b ELSE -((-a) \div b)

Max2(a, b) == IF a >= b THEN a ELSE b

(***************************************************************************)
(* Values.  None is Python's None / SQL NULL.                              *)
(***************************************************************************)
None == "None"

\* Timestamps the log lines carry (the result of parse_logtime().timestamp()).
T_before == week_start(COUNTME_START_WEEKNUM - 1) + 100
T_first == week_start(COUNTME_START_WEEKNUM) + 100
T_in_jitter == week_start(COUNTME_START_WEEKNUM + 1) + LOG_JITTER_WINDOW - 1
T_past_jitter == week_start(COUNTME_START_WEEKNUM + 1) + LOG_JITTER_WINDOW
T_next == week_start(COUNTME_START_WEEKNUM + 2) + LOG_JITTER_WINDOW

Times == {T_before, T_first, T_in_jitter, T_past_jitter, T_next}
Hosts == {"10.0.0.1", "10.0.0.2"}
CountmeParams == {"absent", "1", "x"}     \* the countme= query parameter
RepoParams == {None, "f38"}               \* query.get("repo")

\* The weeks the timestamps above can fall into, with a margin.
Weeks == (COUNTME_START_WEEKNUM - 2) .. (COUNTME_START_WEEKNUM + 3)

(***************************************************************************)
(* regex.py: a log line is represented by what the regexes capture from    *)
(* it.  kind "countme" lines match COUNTME_LOG_RE and MIRRORS_LOG_RE,      *)
(* kind "mirror" lines match MIRRORS_LOG_RE only (no libdnf user agent),   *)
(* kind "other" lines match neither.                                       *)
(***************************************************************************)
LineOf(k, t, h, v, c, r) ==
    [kind |-> k, time |-> t, host |-> h, os_variant |-> v, countme |-> c, repo |-> r]

OtherLine == LineOf("other", T_first, "10.0.0.1", "workstation", "absent", None)

\* Lines of the first week vary in host and variant for the countme
\* stream, and in what make_item does with them; the lines of the other
\* weeks only move the minimum and maximum timestamps of either stream.
Clients == {<<"10.0.0.1", "workstation">>, <<"10.0.0.2", "workstation">>,
            <<"10.0.0.1", "server">>}

LogLines ==
    {OtherLine}
    \cup {LineOf("countme", T_first, cl[1], cl[2], "1", r) :
             cl \in Clients, r \in RepoParams}
    \cup {LineOf("countme", T_first, "10.0.0.1", "workstation", c, r) :
             c \in CountmeParams, r \in RepoParams}
    \cup {LineOf("countme", t, "10.0.0.1", "workstation", c, "f38") :
             t \in Times \ {T_first}, c \in CountmeParams \ {"x"}}
    \cup {LineOf("mirror", T_first, h, "workstation", "absent", r) :
             h \in Hosts, r \in RepoParams}

regex_match(cls, line) ==
    IF cls = "countme" THEN line.kind = "countme"
    ELSE line.kind \in {"countme", "mirror"}

(***************************************************************************)
(* matchers.py: make_item.  int() of the countme parameter raises          *)
(* ValueError on text that is not an integer.                              *)
(***************************************************************************)
int_raises(text) == text \notin {"0", "1", "2"}
int_of(text) == CASE text = "0" -> 0 [] text = "1" -> 1 [] text = "2" -> 2

make_item_raises(cls, line) ==
    cls = "countme" /\ line.countme # "absent" /\ int_raises(line.countme)

\* make_item with query.get("countme", 0)
CountmeMatcher_make_item_zero(line) ==
    [timestamp |-> line.time,
     host |-> line.host,
     os_name |-> "Fedora",
     os_version |-> "38",
     os_variant |-> line.os_variant,
     os_arch |-> "x86_64",
     sys_age |-> IF line.countme = "absent" THEN 0 ELSE int_of(line.countme),
     repo_tag |-> line.repo,
     repo_arch |-> "x86_64"]

CountmeMatcher_make_item(line) ==
    [timestamp |-> line.time,
     host |-> line.host,
     os_name |-> "Fedora",
     os_version |-> "38",
     os_variant |-> line.os_variant,
     os_arch |-> "x86_64",
     sys_age |-> IF line.countme = "absent" THEN -1 ELSE int_of(line.countme),
     repo_tag |-> line.repo,
     repo_arch |-> "x86_64"]

MirrorMatcher_make_item(line) ==
    [timestamp |-> line.time,
     host |-> line.host,
     repo_tag |-> line.repo,
     repo_arch |-> "x86_64"]

make_item(cls, line) ==
    IF cls = "countme" THEN CountmeMatcher_make_item(line)
    ELSE MirrorMatcher_make_item(line)

\* "None in i" of parse_from_iterator; query.get() is what can return None.
NoneIn(item) == item.repo_tag = None \/ item.repo_arch = None

(***************************************************************************)
(* State.                                                                  *)
(***************************************************************************)
VARIABLES
    raw_fields,   \* columns of countme_raw: "none" (no table), "countme", "mirrors"
    raw,          \* committed rows of countme_raw, a bag (the table has no key)
    pending,      \* rows the open writer connection inserted and has not committed
    totals,       \* committed rows of countme_totals, a bag
    pc,           \* "idle", "parse" (in parse_from_iterator), "countme", "unique" (in totals)
    dupcheck,     \* the dupcheck argument of the running parse()
    nlines,       \* lines the running parse() has read
    new_weeks,    \* weeks the running loop of totals() still has to count
    rerun,        \* the running totals() follows a finished one with countme_raw unchanged (history)
    dirty,        \* countme_raw changed since the last finished totals() (history)
    fileobj,      \* LogMatcher.fileobj: the lines iterated over
    matcher,      \* the LogMatcher subclass: "countme" or "mirrors"
    pos,          \* lines of fileobj consumed by iteritems
    yielded,      \* items iteritems has yielded
    stderr,       \* lines reported as malformed
    tpending,     \* rows the totals writer inserted in its open transaction
    towrite,      \* items the running write_items() has not inserted yet
    t_in,         \* the timestamp weeknum() is called with
    w_out,        \* what weeknum() returned for it, <<>> before the call
    querystr,     \* the query string parse_querydict() is called with, its characters
    querydict,    \* <<the dict parse_querydict() returned>>, <<>> before the call
    preproc,      \* what pre_process() yielded for the log being read: "none", "tmpfile", "original"
    before,       \* <<the table before countme-trim-raw or countme-delete-totals deleted from it>> (history)
    uninterrupted \* <<countme_raw, what the interrupted totals() would have left>> (history)

storeVars == <<raw_fields, raw, pending, totals>>
runVars == <<pc, dupcheck, nlines, new_weeks>>
histVars == <<rerun, dirty>>
matcherVars == <<fileobj, matcher, pos, yielded, stderr>>
txVars == <<tpending, towrite>>
weekVars == <<t_in, w_out>>
queryVars == <<querystr, querydict>>
refVars == <<before, uninterrupted>>
vars == <<storeVars, runVars, histVars, matcherVars, txVars, weekVars, queryVars, preproc, refVars>>

\* No process is running: the last one returned, was interrupted, or
\* ended with a ReaderError.
Idle == pc \in {"idle", "interrupted", "error"}

(***************************************************************************)
(* SQL helpers.                                                            *)
(***************************************************************************)
RECURSIVE SumCopies(_, _)
SumCopies(rows, table) ==
    IF rows = {} THEN 0
    ELSE LET r == CHOOSE x \in rows : TRUE
         IN CopiesIn(r, table) + SumCopies(rows \ {r}, table)

\* SELECT F(row) FROM table WHERE row \in rows, as a bag of results
Select(table, rows, F(_)) ==
    [b \in {F(r) : r \in rows} |-> SumCopies({r \in rows : F(r) = b}, table)]

\* a = b in SQL: never true when an operand is NULL.  Only the fields that
\* query.get() fills can hold None.
Nullable == {"repo_tag", "repo_arch"}
SqlEq(f, a, b) == IF f \in Nullable THEN a # None /\ b # None /\ a = b ELSE a = b

\* MIN() and MAX() over a set of integers; <<>> is the NULL of an empty set
SqlMin(S) == IF S = {} THEN <<>> ELSE <<CHOOSE m \in S : \A x \in S : m <= x>>
SqlMax(S) == IF S = {} THEN <<>> ELSE <<CHOOSE m \in S : \A x \in S : m >= x>>

\* The text SQLite stores for an integer written to a TEXT column, as
\* character codes ("-" is 45, "0" is 48).
RECURSIVE DigitCodes(_)
DigitCodes(n) ==
    IF n < 10 THEN <<48 + n>> ELSE DigitCodes(n \div 10) \o <<48 + (n % 10)>>

Text(n) == IF n < 0 THEN <<45>> \o DigitCodes(-n) ELSE DigitCodes(n)

\* BINARY collation: memcmp, then length
RECURSIVE CodesLess(_, _)
CodesLess(a, b) ==
    IF b = <<>> THEN FALSE
    ELSE IF a = <<>> THEN TRUE
    ELSE IF Head(a) # Head(b) THEN Head(a) < Head(b)
    ELSE CodesLess(Tail(a), Tail(b))

TextLess(m, n) == CodesLess(Text(m), Text(n))

\* MAX() over a TEXT column
SqlMaxText(S) ==
    IF S = {} THEN <<>> ELSE <<CHOOSE m \in S : \A x \in S : ~TextLess(m, x)>>

(***************************************************************************)
(* writers.py: SQLiteWriter                                                *)
(***************************************************************************)
\* The rows a connection sees: the committed ones and its own.
Table == raw (+) pending

\* has_item that finds nothing
has_item_never(table, item) == FALSE

has_item(table, item) ==
    \E r \in BagToSet(table) : \A f \in DOMAIN item : SqlEq(f, r[f], item[f])

write_item(table, item) == table (+) SetToBag({item})

(***************************************************************************)
(* parse.py: parse_from_iterator, one action per step of its loops.        *)
(***************************************************************************)
\* parse(): write_header() creates the table for the matcher's item tuple
\* (the script derives the matcher from --matchmode).  An existing table
\* with other columns makes the INSERTs fail.
ParseBegin(matchmode, dupcheck_arg) ==
    /\ Idle
    /\ raw_fields \in {"none", matchmode}
    /\ raw_fields' = matchmode
    /\ pc' = "parse"
    /\ dupcheck' = dupcheck_arg
    /\ nlines' = 0
    /\ towrite' = {}
    /\ UNCHANGED <<raw, pending, totals, new_weeks, histVars, matcherVars, tpending, weekVars, queryVars, preproc, refVars>>

\* What the loop body does with one line: "nomatch" (regex), "malformed"
\* (make_item raised), "dropped" (None in the item, countme mode), "dup"
\* (has_item) or "insert".
LineOp(line) ==
    IF ~regex_match(raw_fields, line) THEN "nomatch"
    ELSE IF make_item_raises(raw_fields, line) THEN "malformed"
    ELSE IF raw_fields = "countme" /\ NoneIn(make_item(raw_fields, line)) THEN "dropped"
    ELSE IF dupcheck /\ has_item(Table, make_item(raw_fields, line)) THEN "dup"
    ELSE "insert"

\* One line of the current log: matched, converted, filtered, inserted.
ParseLine(line) ==
    /\ pc = "parse"
    /\ nlines < MaxLines
    /\ LineOp(line) = "insert" => BagCardinality(Table) < MaxRows
    /\ pending' = IF LineOp(line) = "insert"
                  THEN write_item(pending, make_item(raw_fields, line))
                  ELSE pending
    /\ nlines' = nlines + 1
    /\ UNCHANGED <<raw_fields, raw, totals, pc, dupcheck, new_weeks, histVars, matcherVars, txVars, weekVars, queryVars, preproc, refVars>>

\* End of a log that is not the last one: write_items() commits its batch;
\* with dupcheck the loop just continues.
ParseNextLog ==
    /\ pc = "parse"
    /\ raw' = IF dupcheck THEN raw ELSE raw (+) pending
    /\ pending' = IF dupcheck THEN pending ELSE EmptyBag
    /\ dirty' = (dirty \/ (~dupcheck /\ pending # EmptyBag))
    /\ UNCHANGED <<raw_fields, totals, runVars, rerun, matcherVars, txVars, weekVars, queryVars, preproc, refVars>>

\* End of the last log: write_items() commits (no dupcheck), then
\* write_index() commits if the index argument is set; rows that nothing
\* committed are lost with the connection.
ParseEnd(index) ==
    /\ pc = "parse"
    /\ LET commits == ~dupcheck \/ index
       IN /\ raw' = IF commits THEN raw (+) pending ELSE raw
          /\ dirty' = (dirty \/ (commits /\ pending # EmptyBag))
    /\ pending' = EmptyBag
    /\ pc' = "idle"
    /\ dupcheck' = TRUE
    /\ nlines' = 0
    /\ UNCHANGED <<raw_fields, totals, new_weeks, rerun, matcherVars, txVars, weekVars, queryVars, preproc, refVars>>

(***************************************************************************)
(* util.py: MinMaxPropMixin, on countme_raw (timestamp INTEGER, sys_age    *)
(* INTEGER) and on countme_totals, whose weeknum and sys_age columns are   *)
(* TEXT because TotalsItem annotates them str: there "sys_age >= 0"        *)
(* compares with the text '0' and MAX(weeknum) is the greatest text.       *)
(***************************************************************************)
mintime_countme(table) == SqlMin({r.timestamp : r \in {x \in BagToSet(table) : x.sys_age >= 0}})
maxtime_countme(table) == SqlMax({r.timestamp : r \in {x \in BagToSet(table) : x.sys_age >= 0}})
mintime_unique(table) == SqlMin({r.timestamp : r \in {x \in BagToSet(table) : x.sys_age < 0}})
maxtime_unique(table) == SqlMax({r.timestamp : r \in {x \in BagToSet(table) : x.sys_age < 0}})

totals_maxtime_countme(table) ==
    SqlMaxText({r.weeknum : r \in {x \in BagToSet(table) : ~TextLess(x.sys_age, 0)}})
\* maxtime_unique without its WHERE clause
totals_maxtime_all(table) == SqlMaxText({r.weeknum : r \in BagToSet(table)})

totals_maxtime_unique(table) ==
    SqlMaxText({r.weeknum : r \in {x \in BagToSet(table) : TextLess(x.sys_age, 0)}})

(***************************************************************************)
(* totals.py                                                               *)
(***************************************************************************)
range(start, stop) == [i \in 1 .. Max2(stop - start, 0) |-> start + i - 1]

\* sorted(..., reverse=True)
sorted_reverse(seq) == SortSeq(seq, LAMBDA a, b : a > b)

sorted(seq) == SortSeq(seq, LAMBDA a, b : a < b)

\* complete_weeks with the jitter window forgotten
complete_weeks_nojitter(mintime, maxtime) ==
    IF mintime = <<>> THEN <<>>
    ELSE LET startweek == Max2(weeknum(mintime[1]), COUNTME_START_WEEKNUM)
             provweek == Max2(weeknum(maxtime[1]), COUNTME_START_WEEKNUM)
         IN range(startweek, provweek)

\* complete_weeks with startweek not held at COUNTME_START_WEEKNUM
complete_weeks_noclamp(mintime, maxtime) ==
    IF mintime = <<>> THEN <<>>
    ELSE LET startweek == weeknum(mintime[1])
             provweek == Max2(weeknum(maxtime[1] - LOG_JITTER_WINDOW), COUNTME_START_WEEKNUM)
         IN range(startweek, provweek)

\* complete_weeks with the provisional week inside the range
complete_weeks_inclusive(mintime, maxtime) ==
    IF mintime = <<>> THEN <<>>
    ELSE LET startweek == Max2(weeknum(mintime[1]), COUNTME_START_WEEKNUM)
             provweek == Max2(weeknum(maxtime[1] - LOG_JITTER_WINDOW), COUNTME_START_WEEKNUM)
         IN range(startweek, provweek + 1)

\* RawDB.complete_weeks / RawDBU.complete_weeks
complete_weeks(mintime, maxtime) ==
    IF mintime = <<>> THEN <<>>
    ELSE LET startweek == Max2(weeknum(mintime[1]), COUNTME_START_WEEKNUM)
             provweek == Max2(weeknum(maxtime[1] - LOG_JITTER_WINDOW), COUNTME_START_WEEKNUM)
         IN range(startweek, provweek)

RawDB_complete_weeks(table) == complete_weeks(mintime_countme(table), maxtime_countme(table))
\* RawDBU.complete_weeks over the rows of both classes
RawDBU_complete_weeks_allrows(table) ==
    complete_weeks(SqlMin({r.timestamp : r \in BagToSet(table)}),
                   SqlMax({r.timestamp : r \in BagToSet(table)}))

RawDBU_complete_weeks(table) == complete_weeks(mintime_unique(table), maxtime_unique(table))

\* latest_week with the totals table never consulted
latest_week_unset(maxtime) == -1

\* "totals.maxtime_countme or -1", then int()
\* latest_week one week too high
latest_week_next(maxtime) == IF maxtime = <<>> THEN -1 ELSE maxtime[1] + 1

latest_week(maxtime) == IF maxtime = <<>> THEN -1 ELSE maxtime[1]

\* NewWeeks with ">=" for ">"
NewWeeks_ge(complete, latest) == SelectSeq(sorted(complete), LAMBDA w : w >= latest)

\* new_weeks = [w for w in complete_weeks if w > int(latest_week_in_totals)]
NewWeeks(complete, latest) == SelectSeq(sorted(complete), LAMBDA w : w > latest)

\* BucketSelect without the os_variant column
BucketSelect_novariant(r) ==
    [weeknum |-> SqlDiv(r.timestamp - COUNTME_EPOCH, WEEK_LEN),
     os_name |-> r.os_name,
     os_version |-> r.os_version,
     os_variant |-> "",
     os_arch |-> r.os_arch,
     sys_age |-> r.sys_age,
     repo_tag |-> r.repo_tag,
     repo_arch |-> r.repo_arch]

BucketSelect(r) ==
    [weeknum |-> SqlDiv(r.timestamp - COUNTME_EPOCH, WEEK_LEN),
     os_name |-> r.os_name,
     os_version |-> r.os_version,
     os_variant |-> r.os_variant,
     os_arch |-> r.os_arch,
     sys_age |-> r.sys_age,
     repo_tag |-> r.repo_tag,
     repo_arch |-> r.repo_arch]

BucketSelectUniqueIP(r) == [BucketSelect(r) EXCEPT !.sys_age = -1]

\* RawDB.week_iter without "AND sys_age >= 0"
RawDB_week_iter_nofilter(table, week) ==
    LET start_ts == week * WEEK_LEN + COUNTME_EPOCH
        end_ts == start_ts + WEEK_LEN
        rows == {r \in BagToSet(table) : r.timestamp >= start_ts /\ r.timestamp < end_ts}
    IN Select(table, rows, BucketSelect)

\* RawDB.week_iter: the selected buckets, as a bag
RawDB_week_iter(table, week) ==
    LET start_ts == week * WEEK_LEN + COUNTME_EPOCH
        end_ts == start_ts + WEEK_LEN
        rows == {r \in BagToSet(table) :
                    r.timestamp >= start_ts /\ r.timestamp < end_ts /\ r.sys_age >= 0}
    IN Select(table, rows, BucketSelect)

\* GROUP BY host, os_name, os_version, os_variant, os_arch, repo_tag, repo_arch
GroupKey(r) ==
    <<r.host, r.os_name, r.os_version, r.os_variant, r.os_arch, r.repo_tag, r.repo_arch>>

\* DayQuery with "AND sys_age < 0" added
DayQuery_uniqueonly(table, start_ts, end_ts) ==
    LET rows == {r \in BagToSet(table) :
                    r.timestamp >= start_ts /\ r.timestamp < end_ts /\ r.sys_age < 0}
        groups == {GroupKey(r) : r \in rows}
        selected(k) == BucketSelectUniqueIP(CHOOSE r \in rows : GroupKey(r) = k)
    IN [b \in {selected(k) : k \in groups} |->
           Cardinality({k \in groups : selected(k) = b})]

\* One query of SplitWeekDays.fetchall: one selected row per group, as a bag
DayQuery(table, start_ts, end_ts) ==
    LET rows == {r \in BagToSet(table) : r.timestamp >= start_ts /\ r.timestamp < end_ts}
        groups == {GroupKey(r) : r \in rows}
        selected(k) == BucketSelectUniqueIP(CHOOSE r \in rows : GroupKey(r) = k)
    IN [b \in {selected(k) : k \in groups} |->
           Cardinality({k \in groups : selected(k) = b})]

\* SplitWeekDays.fetchall: the [start_ts, end_ts) of the queries of days d .. 6
RECURSIVE SplitWeekDays_slices(_, _)
SplitWeekDays_slices(start_ts, d) ==
    IF d > 6 THEN <<>>
    ELSE LET end_ts == start_ts + (WEEK_LEN \div 7)
         IN <<(<<start_ts, end_ts>>)>> \o SplitWeekDays_slices(end_ts, d + 1)

\* SplitWeekDays.fetchall as one query over the whole week
SplitWeekDays_fetchall_week(table, start_ts, d) ==
    DayQuery(table, start_ts, start_ts + WEEK_LEN)

\* SplitWeekDays.fetchall: the rows of the queries of days d .. 6
RECURSIVE SplitWeekDays_fetchall(_, _, _)
SplitWeekDays_fetchall(table, start_ts, d) ==
    IF d > 6 THEN EmptyBag
    ELSE LET end_ts == start_ts + (WEEK_LEN \div 7)
         IN DayQuery(table, start_ts, end_ts)
            (+) SplitWeekDays_fetchall(table, end_ts, d + 1)

\* RawDBU.week_iter
RawDBU_week_iter(table, week) ==
    LET start_ts == week * WEEK_LEN + COUNTME_EPOCH
    IN SplitWeekDays_fetchall(table, start_ts, 0)

\* (hits,) + bucket for bucket, hits in hitcount.items()
TotalsItems(hitcount) ==
    {[hits |-> hitcount[b],
      weeknum |-> b.weeknum,
      os_name |-> b.os_name,
      os_version |-> b.os_version,
      os_variant |-> b.os_variant,
      os_arch |-> b.os_arch,
      sys_age |-> b.sys_age,
      repo_tag |-> b.repo_tag,
      repo_arch |-> b.repo_arch] : b \in DOMAIN hitcount}

\* SQLiteWriter.write_items: executemany in one transaction
write_items(table, items) == table (+) SetToBag(items)

(***************************************************************************)
(* totals(), one action per step: the writer and RawDB are opened and the  *)
(* new weeks of the countme stream computed, each week is counted and      *)
(* written, then the same for RawDBU.  RawDB() raises ReaderError unless   *)
(* countme_raw has the columns of CountmeItem.                             *)
(***************************************************************************)
\* output_items.py: the fields of the item tuples
MirrorItem_fields == <<"timestamp", "host", "repo_tag", "repo_arch">>
CountmeItem_fields ==
    <<"timestamp", "host", "os_name", "os_version", "os_variant", "os_arch",
      "sys_age", "repo_tag", "repo_arch">>

\* SQLiteReader._get_fields: PRAGMA table_info, no rows for a missing table
get_fields ==
    CASE raw_fields = "none" -> <<>>
      [] raw_fields = "mirrors" -> MirrorItem_fields
      [] raw_fields = "countme" -> CountmeItem_fields

\* ItemReader.__init__ without the comparison of the field lists
ItemReader_init_nomismatch(filefields, itemfields) ==
    IF filefields = <<>> THEN "ReaderError: no field names found" ELSE "ok"

\* ItemReader.__init__: what the construction raises, or "ok"
ItemReader_init(filefields, itemfields) ==
    IF filefields = <<>> THEN "ReaderError: no field names found"
    ELSE IF filefields # itemfields THEN "ReaderError: field mismatch"
    ELSE "ok"

\* totals(): RawDB(countme_raw) raises and the run ends before it has
\* computed or written anything.
TotalsReaderError ==
    /\ Idle
    /\ ItemReader_init(get_fields, CountmeItem_fields) # "ok"
    /\ pc' = "error"
    /\ towrite' = {}
    /\ UNCHANGED <<storeVars, dupcheck, nlines, new_weeks, histVars, matcherVars,
                   tpending, weekVars, queryVars, preproc, refVars>>

TotalsBegin ==
    /\ Idle
    /\ ItemReader_init(get_fields, CountmeItem_fields) = "ok"
    /\ pc' = "countme"
    /\ new_weeks' = NewWeeks(RawDB_complete_weeks(raw),
                             latest_week(totals_maxtime_countme(totals)))
    /\ rerun' = ~dirty
    /\ towrite' = {}
    /\ UNCHANGED <<storeVars, dupcheck, nlines, dirty, matcherVars, tpending, weekVars, queryVars, preproc, refVars>>

TotalsWeek ==
    /\ pc = "countme"
    /\ new_weeks # <<>>
    /\ LET items == TotalsItems(RawDB_week_iter(raw, Head(new_weeks)))
       IN totals' = write_items(totals, items)
    /\ new_weeks' = Tail(new_weeks)
    /\ UNCHANGED <<raw_fields, raw, pending, pc, dupcheck, nlines, histVars, matcherVars, txVars, weekVars, queryVars, preproc, refVars>>

TotalsBeginUnique ==
    /\ pc = "countme"
    /\ new_weeks = <<>>
    /\ pc' = "unique"
    /\ new_weeks' = NewWeeks(RawDBU_complete_weeks(raw),
                             latest_week(totals_maxtime_unique(totals)))
    /\ UNCHANGED <<storeVars, dupcheck, nlines, histVars, matcherVars, txVars, weekVars, queryVars, preproc, refVars>>

TotalsWeekUnique ==
    /\ pc = "unique"
    /\ new_weeks # <<>>
    /\ LET items == TotalsItems(RawDBU_week_iter(raw, Head(new_weeks)))
       IN totals' = write_items(totals, items)
    /\ new_weeks' = Tail(new_weeks)
    /\ UNCHANGED <<raw_fields, raw, pending, pc, dupcheck, nlines, histVars, matcherVars, txVars, weekVars, queryVars, preproc, refVars>>

TotalsEnd ==
    /\ pc = "unique"
    /\ new_weeks = <<>>
    /\ pc' = "idle"
    /\ dirty' = FALSE
    /\ rerun' = FALSE
    /\ UNCHANGED <<storeVars, dupcheck, nlines, new_weeks, matcherVars, txVars, weekVars, queryVars, preproc, refVars>>

(***************************************************************************)
(* totals.write_items() of one week, step by step, for the runs that can   *)
(* be interrupted: the rows of the week are counted, executemany() inserts *)
(* them one by one in a transaction of the writer's connection, and the    *)
(* "with self._connection" block commits it.                               *)
(***************************************************************************)
WriteItemsBegin ==
    /\ pc \in {"countme", "unique"}
    /\ new_weeks # <<>>
    /\ towrite' = IF pc = "countme"
                  THEN TotalsItems(RawDB_week_iter(raw, Head(new_weeks)))
                  ELSE TotalsItems(RawDBU_week_iter(raw, Head(new_weeks)))
    /\ pc' = IF pc = "countme" THEN "write_countme" ELSE "write_unique"
    /\ UNCHANGED <<storeVars, dupcheck, nlines, new_weeks, histVars, matcherVars,
                   tpending, weekVars, queryVars, preproc, refVars>>

\* executemany with every INSERT committed on its own
WriteItemsInsert_autocommit(item) ==
    /\ pc \in {"write_countme", "write_unique"}
    /\ item \in towrite
    /\ totals' = write_item(totals, item)
    /\ towrite' = towrite \ {item}
    /\ UNCHANGED <<raw_fields, raw, pending, runVars, histVars, matcherVars,
                   tpending, weekVars, queryVars, preproc, refVars>>

WriteItemsInsert(item) ==
    /\ pc \in {"write_countme", "write_unique"}
    /\ item \in towrite
    /\ tpending' = write_item(tpending, item)
    /\ towrite' = towrite \ {item}
    /\ UNCHANGED <<storeVars, runVars, histVars, matcherVars, weekVars, queryVars, preproc, refVars>>

WriteItemsCommit ==
    /\ pc \in {"write_countme", "write_unique"}
    /\ towrite = {}
    /\ totals' = totals (+) tpending
    /\ tpending' = EmptyBag
    /\ new_weeks' = Tail(new_weeks)
    /\ pc' = IF pc = "write_countme" THEN "countme" ELSE "unique"
    /\ UNCHANGED <<raw_fields, raw, pending, dupcheck, nlines, histVars, matcherVars,
                   towrite, weekVars, queryVars, preproc, refVars>>

\* The running process is interrupted (KeyboardInterrupt, kill): what its
\* connections did not commit is rolled back.  towrite keeps what the
\* interrupted write_items() had not inserted.
\* What the loops of totals() write for the weeks they have left.
RECURSIVE LoopItems(_, _)
LoopItems(weeks, unique) ==
    IF weeks = <<>> THEN EmptyBag
    ELSE SetToBag(TotalsItems(IF unique THEN RawDBU_week_iter(raw, Head(weeks))
                              ELSE RawDB_week_iter(raw, Head(weeks))))
         (+) LoopItems(Tail(weeks), unique)

\* countme_totals as the running totals() leaves it when nothing stops it.
RunToEnd ==
    IF pc \in {"countme", "write_countme"}
    THEN totals (+) LoopItems(new_weeks, FALSE)
         (+) LoopItems(NewWeeks(RawDBU_complete_weeks(raw),
                                latest_week(totals_maxtime_unique(totals))), TRUE)
    ELSE totals (+) LoopItems(new_weeks, TRUE)

Interrupt ==
    /\ ~Idle
    /\ pc' = "interrupted"
    /\ pending' = EmptyBag
    /\ tpending' = EmptyBag
    /\ dupcheck' = TRUE
    /\ nlines' = 0
    /\ new_weeks' = <<>>
    /\ rerun' = FALSE
    /\ UNCHANGED <<raw_fields, raw, totals, dirty, matcherVars, towrite, weekVars, queryVars, preproc, refVars>>

\* The interruption of a run of totals(), with what the run would have
\* left recorded, unless an interrupted run over the same countme_raw has
\* recorded it.
InterruptTotals ==
    /\ pc \in {"countme", "write_countme", "unique", "write_unique"}
    /\ pc' = "interrupted"
    /\ tpending' = EmptyBag
    /\ new_weeks' = <<>>
    /\ rerun' = FALSE
    /\ uninterrupted' = IF uninterrupted # <<>> /\ uninterrupted[1] = raw
                        THEN uninterrupted
                        ELSE <<raw, RunToEnd>>
    /\ UNCHANGED <<storeVars, dupcheck, nlines, dirty, matcherVars, towrite, weekVars, queryVars, preproc, before>>

(***************************************************************************)
(* parse.py: parse(), which hands parse_from_iterator the logs through     *)
(* ReadProgress and the pre_process context manager.  pre_process runs     *)
(* "grep countme" into a temporary file and yields that file, or the       *)
(* original when grep exits with a status other than 0 (1: no line of the  *)
(* log holds "countme").  ReadProgressBase.__iter__ leaves the context     *)
(* when parse_from_iterator asks for the next log: the generator of        *)
(* pre_process is resumed; after "yield str(filepath)" it reaches          *)
(* "yield tmpfile.name", and contextlib raises RuntimeError("generator     *)
(* didn't stop").                                                          *)
(***************************************************************************)
\* grep countme: the line holds the text
grep_countme(line) == line.countme # "absent"

pre_process(returncode) ==
    /\ pc = "parse"
    /\ preproc = "none"
    /\ preproc' = IF returncode # 0 THEN "original" ELSE "tmpfile"
    /\ UNCHANGED <<storeVars, runVars, histVars, matcherVars, txVars, weekVars, queryVars, refVars>>

\* The lines of the file pre_process yielded
pre_process_line(line) ==
    \/ preproc = "tmpfile" /\ grep_countme(line)
    \/ preproc = "original" /\ ~grep_countme(line)

\* The log is consumed: write_items() of parse_from_iterator commits (no
\* dupcheck), the next log is asked for and the context is left.
pre_process_exit ==
    /\ pc = "parse"
    /\ preproc # "none"
    /\ raw' = IF dupcheck THEN raw ELSE raw (+) pending
    /\ dirty' = (dirty \/ (~dupcheck /\ pending # EmptyBag))
    /\ preproc' = "none"
    /\ IF preproc = "tmpfile"
       THEN /\ pending' = IF dupcheck THEN pending ELSE EmptyBag
            /\ UNCHANGED <<pc, dupcheck, nlines>>
       ELSE /\ pc' = "error"
            /\ pending' = EmptyBag
            /\ dupcheck' = TRUE
            /\ nlines' = 0
    /\ UNCHANGED <<raw_fields, totals, new_weeks, rerun, matcherVars, txVars, weekVars, queryVars, refVars>>

(***************************************************************************)
(* scripts/countme_trim_raw.py.  The datetime arithmetic of _main is done  *)
(* on seconds since 1970-01-01 00:00 UTC, a Thursday (weekday() = 3).      *)
(***************************************************************************)
Min2(a, b) == IF a <= b THEN a ELSE b

next_week(mintime) ==
    COUNTME_EPOCH + (((mintime - COUNTME_EPOCH) \div WEEK_LEN) + 1) * WEEK_LEN

\* last.replace(hour=0, minute=0, second=0, microsecond=0)
last_midnight(max_time) == max_time - (max_time % DAY_LEN)

\* datetime.weekday(): Monday is 0
weekday(timestamp) == ((timestamp \div DAY_LEN) + 3) % 7

last_monday_midnight(max_time) ==
    last_midnight(max_time) - weekday(last_midnight(max_time)) * DAY_LEN

\* The cutoff with timedelta(weeks=args.keep)
cutoff_monday_midnight_keep(max_time, keep) ==
    last_monday_midnight(max_time) - keep * WEEK_LEN

cutoff_monday_midnight(max_time, keep) ==
    last_monday_midnight(max_time) - (keep + 1) * WEEK_LEN

get_mintime(table, unique_ip_only) ==
    SqlMin({r.timestamp : r \in {x \in BagToSet(table) : unique_ip_only => x.sys_age < 0}})
get_maxtime(table, unique_ip_only) ==
    SqlMax({r.timestamp : r \in {x \in BagToSet(table) : unique_ip_only => x.sys_age < 0}})

trim_end(min_time, max_time, keep, oldest_week) ==
    LET te == Max2(cutoff_monday_midnight(max_time, keep), min_time)
    IN IF oldest_week THEN Min2(next_week(min_time), te) ELSE te

\* DELETE FROM countme_raw WHERE timestamp >= ? AND timestamp < ? [AND sys_age < 0]
del_entries(table, trim_begin, trim_end_, unique_ip_only) ==
    LET gone == {r \in BagToSet(table) :
                    /\ r.timestamp >= trim_begin /\ r.timestamp < trim_end_
                    /\ unique_ip_only => r.sys_age < 0}
    IN [r \in BagToSet(table) \ gone |-> table[r]]

\* One run of countme-trim-raw over a countme_raw table of CountmeItem
\* rows; without rows that match it exits, without --rw it only reports.
TrimRaw(rw, keep, oldest_week, unique_ip_only) ==
    /\ Idle
    /\ raw_fields = "countme"
    /\ LET min_time == get_mintime(raw, unique_ip_only)
           max_time == get_maxtime(raw, unique_ip_only)
       IN raw' = IF min_time = <<>> \/ ~rw THEN raw
                 ELSE del_entries(raw, min_time[1],
                                  trim_end(min_time[1], max_time[1], keep, oldest_week),
                                  unique_ip_only)
    /\ dirty' = (dirty \/ raw' # raw)
    /\ before' = <<raw>>
    /\ UNCHANGED <<raw_fields, pending, totals, runVars, rerun, matcherVars, txVars, weekVars, queryVars, preproc, uninterrupted>>

(***************************************************************************)
(* scripts/countme_delete_totals.py.  weeknum is a TEXT column, MAX() is   *)
(* the text maximum, and the DELETE compares with the text it returned.    *)
(***************************************************************************)
\* SELECT MIN(weeknum) in the place of MAX(weeknum)
last_week_first(table) ==
    IF table = EmptyBag THEN <<>>
    ELSE <<CHOOSE m \in {r.weeknum : r \in BagToSet(table)} :
              \A r \in BagToSet(table) : ~TextLess(r.weeknum, m)>>

last_week(table) == SqlMaxText({r.weeknum : r \in BagToSet(table)})

\* DELETE FROM countme_totals WHERE weeknum = ?
del_entries_for(table, week) ==
    [r \in {x \in BagToSet(table) : x.weeknum # week} |-> table[r]]

\* One run of countme-delete-totals.  Over a table without rows MAX() is
\* NULL and int(None) in weeknum2tm raises before anything is deleted.
DeleteTotals(rw) ==
    /\ Idle
    /\ IF last_week(totals) = <<>>
       THEN /\ pc' = "error"
            /\ UNCHANGED <<totals, before>>
       ELSE /\ totals' = IF rw THEN del_entries_for(totals, last_week(totals)[1]) ELSE totals
            /\ before' = IF rw /\ before = <<>> THEN <<totals>> ELSE before
            /\ UNCHANGED pc
    /\ UNCHANGED <<raw_fields, raw, pending, dupcheck, nlines, new_weeks, histVars, matcherVars, txVars, weekVars, queryVars, preproc, uninterrupted>>

(***************************************************************************)
(* util.py: parse_querydict(), dict(parse_qsl(querystr, separator="&")).   *)
(* A string is the sequence of its characters.  parse_qsl (urllib.parse,   *)
(* keep_blank_values and strict_parsing off) splits at "&", skips empty    *)
(* fields and fields without "=", splits a field at its first "=" and      *)
(* skips it when the value is empty; the characters of the model need no   *)
(* unquoting.  dict() keeps the last pair of a name.                       *)
(***************************************************************************)
QueryChars == {"a", "1", "=", "&"}

Find(text, c) ==
    IF \E i \in 1..Len(text) : text[i] = c
    THEN CHOOSE i \in 1..Len(text) : text[i] = c /\ \A j \in 1..(i - 1) : text[j] # c
    ELSE 0

RECURSIVE str_split(_, _)
str_split(text, sep) ==
    IF Find(text, sep) = 0 THEN <<text>>
    ELSE <<SubSeq(text, 1, Find(text, sep) - 1)>>
         \o str_split(SubSeq(text, Find(text, sep) + 1, Len(text)), sep)

\* name_value.split("=", 1)
split_nv(name_value) ==
    IF Find(name_value, "=") = 0 THEN <<name_value>>
    ELSE <<SubSeq(name_value, 1, Find(name_value, "=") - 1),
           SubSeq(name_value, Find(name_value, "=") + 1, Len(name_value))>>

RECURSIVE parse_qsl_args(_)
parse_qsl_args(query_args) ==
    IF query_args = <<>> THEN <<>>
    ELSE LET nv == split_nv(Head(query_args))
             r == parse_qsl_args(Tail(query_args))
         IN IF Head(query_args) = <<>> THEN r
            ELSE IF Len(nv) # 2 THEN r
            ELSE IF Len(nv[2]) > 0 THEN <<nv>> \o r
            ELSE r

parse_qsl(qs) == parse_qsl_args(IF qs # <<>> THEN str_split(qs, "&") ELSE <<>>)

dict(pairs) ==
    [k \in {pairs[i][1] : i \in DOMAIN pairs} |->
        pairs[CHOOSE i \in DOMAIN pairs :
                 pairs[i][1] = k /\ \A j \in DOMAIN pairs : pairs[j][1] = k => j <= i][2]]

parse_querydict(qs) == dict(parse_qsl(qs))

parse_querydict_call ==
    /\ querydict = <<>>
    /\ querydict' = <<parse_querydict(querystr)>>
    /\ UNCHANGED <<querystr, storeVars, runVars, histVars, matcherVars, txVars, weekVars, preproc, refVars>>

(***************************************************************************)
(* util.py, countme_delete_totals.py: the calls of weeknum() and of        *)
(* weeknum2tm() on its result.                                             *)
(***************************************************************************)
weeknum_call ==
    /\ w_out = <<>>
    /\ w_out' = <<weeknum(t_in)>>
    /\ UNCHANGED <<t_in, storeVars, runVars, histVars, matcherVars, txVars, queryVars, preproc, refVars>>

weeknum2tm_call ==
    /\ w_out # <<>>
    /\ t_in # weeknum2tm(w_out[1])
    /\ t_in' = weeknum2tm(w_out[1])
    /\ UNCHANGED <<w_out, storeVars, runVars, histVars, matcherVars, txVars, queryVars, preproc, refVars>>

(***************************************************************************)
(* matchers.py: LogMatcher.iteritems, one step per line of fileobj.        *)
(***************************************************************************)
\* iteritems without the try/except: the exception ends the iteration
iteritems_noexcept ==
    /\ pos < Len(fileobj)
    /\ ~(regex_match(matcher, fileobj[pos + 1]) /\ make_item_raises(matcher, fileobj[pos + 1]))
    /\ LET line == fileobj[pos + 1]
       IN IF regex_match(matcher, line)
          THEN /\ yielded' = Append(yielded, make_item(matcher, line))
               /\ UNCHANGED stderr
          ELSE UNCHANGED <<yielded, stderr>>
    /\ pos' = pos + 1
    /\ UNCHANGED <<fileobj, matcher, storeVars, runVars, histVars, txVars, weekVars, queryVars, preproc, refVars>>

iteritems ==
    /\ pos < Len(fileobj)
    /\ LET line == fileobj[pos + 1]
       IN IF regex_match(matcher, line)
          THEN IF make_item_raises(matcher, line)
               THEN /\ stderr' = Append(stderr, line)
                    /\ UNCHANGED yielded
               ELSE /\ yielded' = Append(yielded, make_item(matcher, line))
                    /\ UNCHANGED stderr
          ELSE UNCHANGED <<yielded, stderr>>
    /\ pos' = pos + 1
    /\ UNCHANGED <<fileobj, matcher, storeVars, runVars, histVars, txVars, weekVars, queryVars, preproc, refVars>>

(***************************************************************************)
(* Specifications.                                                         *)
(***************************************************************************)
InitStore ==
    /\ raw_fields = "none"
    /\ raw = EmptyBag
    /\ pending = EmptyBag
    /\ totals = EmptyBag
    /\ pc = "idle"
    /\ dupcheck = TRUE
    /\ nlines = 0
    /\ new_weeks = <<>>
    /\ rerun = FALSE
    /\ dirty = TRUE
    /\ tpending = EmptyBag
    /\ towrite = {}
    /\ preproc = "none"
    /\ before = <<>>
    /\ uninterrupted = <<>>

Init ==
    /\ InitStore
    /\ fileobj = <<>>
    /\ matcher = "countme"
    /\ pos = 0
    /\ yielded = <<>>
    /\ stderr = <<>>
    /\ t_in = 0
    /\ w_out = <<>>
    /\ querystr = <<>>
    /\ querydict = <<>>

Next ==
    \/ \E matchmode \in {"countme", "mirrors"}, dupcheck_arg \in BOOLEAN :
          ParseBegin(matchmode, dupcheck_arg)
    \/ \E line \in LogLines : ParseLine(line)
    \/ ParseNextLog
    \/ \E index \in BOOLEAN : ParseEnd(index)
    \/ TotalsBegin
    \/ TotalsWeek
    \/ TotalsBeginUnique
    \/ TotalsWeekUnique
    \/ TotalsEnd

Spec == Init /\ [][Next]_vars

\* The runs under the assumption the note on LOG_JITTER_WINDOW makes about
\* the logs: no record is more than LOG_JITTER_WINDOW seconds older than
\* the newest record ingested before it.
MaxOf(S) == CHOOSE m \in S : \A x \in S : m >= x
MinOf(S) == CHOOSE m \in S : \A x \in S : m <= x

JitterOK(line) ==
    LET seen == {r.timestamp : r \in BagToSet(Table)}
    IN (LineOp(line) = "insert" /\ seen # {}) =>
           line.time >= MaxOf(seen) - LOG_JITTER_WINDOW

NextJitter ==
    \/ \E matchmode \in {"countme", "mirrors"}, dupcheck_arg \in BOOLEAN :
          ParseBegin(matchmode, dupcheck_arg)
    \/ \E line \in LogLines : JitterOK(line) /\ ParseLine(line)
    \/ ParseNextLog
    \/ \E index \in BOOLEAN : ParseEnd(index)
    \/ TotalsBegin
    \/ TotalsWeek
    \/ TotalsBeginUnique
    \/ TotalsWeekUnique
    \/ TotalsEnd

SpecJitter == Init /\ [][NextJitter]_vars

\* The runs with interruptions and errors.  Two weeks of lines are enough for a week
\* of several rows to be written.
CrashLines == {l \in LogLines : l.time \in {T_first, T_past_jitter}}

NextCrash ==
    \/ \E matchmode \in {"countme", "mirrors"}, dupcheck_arg \in BOOLEAN :
          ParseBegin(matchmode, dupcheck_arg)
    \/ \E line \in CrashLines : ParseLine(line)
    \/ ParseNextLog
    \/ \E index \in BOOLEAN : ParseEnd(index)
    \/ TotalsReaderError
    \/ TotalsBegin
    \/ WriteItemsBegin
    \/ \E item \in towrite : WriteItemsInsert(item)
    \/ WriteItemsCommit
    \/ TotalsBeginUnique
    \/ TotalsEnd
    \/ Interrupt

SpecCrash == Init /\ [][NextCrash]_vars

\* The runs over the log of the end-to-end scenario: hits of week 2900,
\* two clients on workstation and one on server, and later hits just
\* before and after the jitter window of week 2900 has passed.
ScenarioWeek == 2900

ScenarioLines ==
    {LineOf("countme", week_start(ScenarioWeek) + 100, h, "workstation", "1", "f38") :
        h \in Hosts}
    \cup {LineOf("countme", week_start(ScenarioWeek) + DAY_LEN, "10.0.0.1", v, "1", "f38") :
             v \in {"workstation", "server"}}
    \cup {LineOf("countme", t, "10.0.0.1", "workstation", "absent", "f38") :
             t \in {week_start(ScenarioWeek) + 100,
                    week_start(ScenarioWeek + 1) + LOG_JITTER_WINDOW}}
    \cup {LineOf("countme", t, "10.0.0.1", "workstation", "1", "f38") :
             t \in {week_start(ScenarioWeek + 1) + LOG_JITTER_WINDOW - 1,
                    week_start(ScenarioWeek + 1) + LOG_JITTER_WINDOW,
                    week_start(ScenarioWeek + 2) + LOG_JITTER_WINDOW}}

NextScenario ==
    \/ \E matchmode \in {"countme", "mirrors"}, dupcheck_arg \in BOOLEAN :
          ParseBegin(matchmode, dupcheck_arg)
    \/ \E line \in ScenarioLines : ParseLine(line)
    \/ ParseNextLog
    \/ \E index \in BOOLEAN : ParseEnd(index)
    \/ TotalsBegin
    \/ TotalsWeek
    \/ TotalsBeginUnique
    \/ TotalsWeekUnique
    \/ TotalsEnd

SpecScenario == Init /\ [][NextScenario]_vars

\* The timestamps weeknum() is called with: around the boundaries of the
\* weeks about the epoch (before it as well) and about the start week,
\* and around 0.
WeekNums ==
    (-MaxWeek .. MaxWeek)
    \cup ((COUNTME_START_WEEKNUM - 1) .. (COUNTME_START_WEEKNUM + 1))

WeekTimes ==
    {week_start(w) + d : w \in WeekNums, d \in {0, 1, DAY_LEN - 1, DAY_LEN, WEEK_LEN - 1}}
    \cup {-1, 0, 1}

InitWeek ==
    /\ InitStore
    /\ fileobj = <<>>
    /\ matcher = "countme"
    /\ pos = 0
    /\ yielded = <<>>
    /\ stderr = <<>>
    /\ t_in \in WeekTimes
    /\ w_out = <<>>
    /\ querystr = <<>>
    /\ querydict = <<>>

NextWeek ==
    \/ weeknum_call
    \/ weeknum2tm_call

SpecWeek == InitWeek /\ [][NextWeek]_vars

\* The logs ingested before countme-trim-raw runs: hits of both classes in
\* the first seconds of a week, at the start of the next week, in that
\* week, and on a Thursday and a Monday three and four weeks later.
TrimTimes ==
    {week_start(COUNTME_START_WEEKNUM) + 100,
     week_start(COUNTME_START_WEEKNUM + 1),
     week_start(COUNTME_START_WEEKNUM + 1) + 100,
     week_start(COUNTME_START_WEEKNUM + 3) + 3 * DAY_LEN + 100,
     week_start(COUNTME_START_WEEKNUM + 4) + 100}

TrimLines ==
    {LineOf("countme", t, "10.0.0.1", "workstation", c, "f38") :
        t \in TrimTimes, c \in {"1", "absent"}}

Keeps == {1, 2}

\* The logs are ingested first, then countme-trim-raw runs, any number of
\* times.
NextTrim ==
    \/ \E dupcheck_arg \in BOOLEAN : before = <<>> /\ ParseBegin("countme", dupcheck_arg)
    \/ \E line \in TrimLines : ParseLine(line)
    \/ ParseNextLog
    \/ \E index \in BOOLEAN : ParseEnd(index)
    \/ \E rw \in BOOLEAN, keep \in Keeps, oldest_week \in BOOLEAN, unique_ip_only \in BOOLEAN :
          TrimRaw(rw, keep, oldest_week, unique_ip_only)

SpecTrim == Init /\ [][NextTrim]_vars

\* The runs around countme-delete-totals: the logs are ingested, hits of
\* both classes on two days of a week and in the two weeks after it, and
\* from the first totals row on countme_raw stays as it is while totals()
\* and countme-delete-totals run in any order.
DeleteLines ==
    {LineOf("countme", T_first, h, "workstation", c, "f38") :
        h \in Hosts, c \in {"1", "absent"}}
    \cup {LineOf("countme", t, "10.0.0.1", "workstation", c, "f38") :
             t \in {T_first + DAY_LEN, T_past_jitter, T_next}, c \in {"1", "absent"}}

NextDelete ==
    \/ \E dupcheck_arg \in BOOLEAN :
          totals = EmptyBag /\ before = <<>> /\ ParseBegin("countme", dupcheck_arg)
    \/ \E line \in DeleteLines : ParseLine(line)
    \/ ParseNextLog
    \/ \E index \in BOOLEAN : ParseEnd(index)
    \/ TotalsBegin
    \/ TotalsWeek
    \/ TotalsBeginUnique
    \/ TotalsWeekUnique
    \/ TotalsEnd
    \/ \E rw \in BOOLEAN : DeleteTotals(rw)

SpecDelete == Init /\ [][NextDelete]_vars

\* The runs of parse() over log files: every log goes through pre_process.
PreLines == {l \in LogLines : l.time = T_first}

NextPre ==
    \/ \E matchmode \in {"countme", "mirrors"}, dupcheck_arg \in BOOLEAN :
          ParseBegin(matchmode, dupcheck_arg)
    \/ \E returncode \in {0, 1} : pre_process(returncode)
    \/ \E line \in PreLines : pre_process_line(line) /\ ParseLine(line)
    \/ pre_process_exit
    \/ \E index \in BOOLEAN : preproc = "none" /\ ParseEnd(index)

SpecPre == Init /\ [][NextPre]_vars

\* The runs of totals() that are interrupted and run again, over hits of
\* both classes in three weeks, two of which become complete.
ResumeLines ==
    {LineOf("countme", t, "10.0.0.1", "workstation", c, "f38") :
        t \in {T_first, T_past_jitter, T_next}, c \in {"1", "absent"}}

NextResume ==
    \/ \E dupcheck_arg \in BOOLEAN : ParseBegin("countme", dupcheck_arg)
    \/ \E line \in ResumeLines : ParseLine(line)
    \/ ParseNextLog
    \/ \E index \in BOOLEAN : ParseEnd(index)
    \/ TotalsBegin
    \/ WriteItemsBegin
    \/ \E item \in towrite : WriteItemsInsert(item)
    \/ WriteItemsCommit
    \/ TotalsBeginUnique
    \/ TotalsEnd
    \/ InterruptTotals

SpecResume == Init /\ [][NextResume]_vars

\* The query strings parse_querydict() is called with: every string of up
\* to MaxQuery characters.
QueryStrings == UNION {[1..n -> QueryChars] : n \in 0..MaxQuery}

InitQuery ==
    /\ InitStore
    /\ fileobj = <<>>
    /\ matcher = "countme"
    /\ pos = 0
    /\ yielded = <<>>
    /\ stderr = <<>>
    /\ t_in = 0
    /\ w_out = <<>>
    /\ querystr \in QueryStrings
    /\ querydict = <<>>

NextQuery == parse_querydict_call

SpecQuery == InitQuery /\ [][NextQuery]_vars

\* The files a LogMatcher is given: every sequence of at most MaxFile lines.
MatcherLines ==
    {l \in LogLines : l.host = "10.0.0.1" /\ l.os_variant = "workstation"
                      /\ l.time \in {T_first, T_next}}

Files == UNION {[1 .. n -> MatcherLines] : n \in 0 .. MaxFile}

InitMatcher ==
    /\ InitStore
    /\ fileobj \in Files
    /\ matcher \in {"countme", "mirrors"}
    /\ pos = 0
    /\ yielded = <<>>
    /\ stderr = <<>>
    /\ t_in = 0
    /\ w_out = <<>>
    /\ querystr = <<>>
    /\ querydict = <<>>

NextMatcher == iteritems

SpecMatcher == InitMatcher /\ [][NextMatcher]_vars

(***************************************************************************)
(* Properties.                                                             *)
(***************************************************************************)
\* The metric stream a row of countme_raw or countme_totals belongs to
Stream(r) == IF r.sys_age >= 0 THEN "countme" ELSE "unique"

\* The rows a step added to a table
Added(old, new) == {r \in BagToSet(new) : CopiesIn(r, new) > CopiesIn(r, old)}

InWeek(r, w) == week_start(w) <= r.timestamp /\ r.timestamp < week_start(w) + WEEK_LEN

SeqToSet(seq) == {seq[i] : i \in DOMAIN seq}

TotalsKey(r) ==
    <<r.weeknum, r.os_name, r.os_version, r.os_variant, r.os_arch, r.sys_age,
      r.repo_tag, r.repo_arch>>

C2_KeyUnique ==
    \A r \in BagToSet(totals) :
        /\ CopiesIn(r, totals) = 1
        /\ \A q \in BagToSet(totals) : TotalsKey(q) = TotalsKey(r) => q = r

C2_Step ==
    /\ \A r \in BagToSet(totals) : CopiesIn(r, totals') = CopiesIn(r, totals)
    /\ \A r \in Added(totals, totals') :
          \A q \in BagToSet(totals) :
              ~(q.weeknum = r.weeknum /\ Stream(q) = Stream(r))

C3_Range(mintime, maxtime) ==
    {w \in Weeks : /\ Max2(weeknum(mintime), COUNTME_START_WEEKNUM) <= w
                   /\ w < weeknum(maxtime - LOG_JITTER_WINDOW)}

C3_RangeByBoundary(mintime, maxtime) ==
    {w \in Weeks : /\ w >= Max2(weeknum(mintime), COUNTME_START_WEEKNUM)
                   /\ maxtime >= week_start(w + 1) + LOG_JITTER_WINDOW}

C3_Holds(mintime, maxtime) ==
    IF mintime = <<>> THEN complete_weeks(mintime, maxtime) = <<>>
    ELSE /\ SeqToSet(complete_weeks(mintime, maxtime)) = C3_Range(mintime[1], maxtime[1])
         /\ C3_Range(mintime[1], maxtime[1]) = C3_RangeByBoundary(mintime[1], maxtime[1])
         /\ SeqToSet(complete_weeks(mintime, maxtime)) \subseteq Weeks

SameClient(r, t) ==
    /\ r.os_name = t.os_name /\ r.os_version = t.os_version
    /\ r.os_variant = t.os_variant /\ r.os_arch = t.os_arch
    /\ r.repo_tag = t.repo_tag /\ r.repo_arch = t.repo_arch

CountmeHits(t) ==
    SumCopies({r \in BagToSet(raw) :
                  /\ r.sys_age >= 0 /\ InWeek(r, t.weeknum)
                  /\ SameClient(r, t) /\ r.sys_age = t.sys_age}, raw)

UniqueHits(rows, t) ==
    Cardinality({<<(r.timestamp - week_start(t.weeknum)) \div DAY_LEN, r.host>> :
                    r \in {x \in rows : InWeek(x, t.weeknum) /\ SameClient(x, t)}})

RawHits(t) ==
    IF Stream(t) = "countme" THEN CountmeHits(t) ELSE UniqueHits(BagToSet(raw), t)

C4_Step ==
    raw_fields = "countme" =>
        \A r \in Added(pending, pending') :
            \A t \in BagToSet(totals) : t.weeknum # weeknum(r.timestamp)

C4_Counts == \A t \in BagToSet(totals) : t.hits = RawHits(t)

StreamTimes(s) == {r.timestamp : r \in {x \in BagToSet(raw) : Stream(x) = s}}

C5_Step ==
    \A t \in Added(totals, totals') :
        /\ StreamTimes(Stream(t)) # {}
        /\ COUNTME_START_WEEKNUM <= t.weeknum
        /\ weeknum(MinOf(StreamTimes(Stream(t)))) <= t.weeknum
        /\ t.weeknum < weeknum(MaxOf(StreamTimes(Stream(t))) - LOG_JITTER_WINDOW)

C5_Stored ==
    \A t \in BagToSet(totals) :
        /\ COUNTME_START_WEEKNUM <= t.weeknum
        /\ t.weeknum < weeknum(MaxOf(StreamTimes(Stream(t))) - LOG_JITTER_WINDOW)

C6_Rows(w) == {r \in BagToSet(raw) : r.sys_age >= 0 /\ InWeek(r, w)}

C6_Combo(r) ==
    <<r.os_name, r.os_version, r.os_variant, r.os_arch, r.sys_age, r.repo_tag, r.repo_arch>>

C6_Expected(w) ==
    {[hits |-> SumCopies({r \in C6_Rows(w) : C6_Combo(r) = c}, raw),
      weeknum |-> w,
      os_name |-> c[1], os_version |-> c[2], os_variant |-> c[3], os_arch |-> c[4],
      sys_age |-> c[5], repo_tag |-> c[6], repo_arch |-> c[7]] :
        c \in {C6_Combo(r) : r \in C6_Rows(w)}}

C6_Step ==
    (pc = "countme" /\ pc' = "countme" /\ new_weeks # <<>>) =>
        totals' = totals (+) SetToBag(C6_Expected(Head(new_weeks)))

C7_Dedup ==
    [][(pc = "parse" /\ dupcheck) =>
          \A r \in Added(pending, pending') : ~BagIn(r, raw (+) pending)]_vars

C8_Matched(lines) ==
    SelectSeq(lines, LAMBDA l : regex_match(matcher, l) /\ ~make_item_raises(matcher, l))

C8_Malformed(lines) ==
    SelectSeq(lines, LAMBDA l : regex_match(matcher, l) /\ make_item_raises(matcher, l))

\* C8: after any number of lines, iteritems has yielded the items of the
\* lines read that match the regex and convert, in their order, has
\* reported exactly the matching lines that do not convert, and goes on
\* to the next line while one is left.
C8_Iteration ==
    LET read == SubSeq(fileobj, 1, pos)
    IN /\ yielded = [i \in 1 .. Len(C8_Matched(read)) |->
                        make_item(matcher, C8_Matched(read)[i])]
       /\ stderr = C8_Malformed(read)
       /\ pos < Len(fileobj) => ENABLED iteritems

\* A malformed line was reported and the line after it yielded its item.
C8_Witness ==
    /\ Len(fileobj) = 2 /\ pos = 2
    /\ stderr = <<fileobj[1]>>
    /\ yielded = <<make_item(matcher, fileobj[2])>>

C9_HighWater(s) ==
    LET ws == {t.weeknum : t \in {x \in BagToSet(totals) : Stream(x) = s}}
    IN IF ws = {} THEN -1 ELSE MaxOf(ws)

C9_NewWeeks(s) ==
    IF StreamTimes(s) = {} THEN {}
    ELSE {w \in Weeks :
             /\ Max2(weeknum(MinOf(StreamTimes(s))), COUNTME_START_WEEKNUM) <= w
             /\ w < weeknum(MaxOf(StreamTimes(s)) - LOG_JITTER_WINDOW)
             /\ w > C9_HighWater(s)}

C9_Step ==
    /\ (pc = "idle" /\ pc' = "countme") =>
          /\ SeqToSet(new_weeks') = C9_NewWeeks("countme")
          /\ Len(new_weeks') = Cardinality(C9_NewWeeks("countme"))
    /\ (pc = "countme" /\ pc' = "unique") =>
          /\ SeqToSet(new_weeks') = C9_NewWeeks("unique")
          /\ Len(new_weeks') = Cardinality(C9_NewWeeks("unique"))
    /\ (pc = "countme" /\ pc' = "countme") =>
          C9_HighWater("unique")' = C9_HighWater("unique")
    /\ (pc = "unique" /\ pc' = "unique") =>
          C9_HighWater("countme")' = C9_HighWater("countme")

C10_Step(unique_rows) ==
    /\ (pc = "countme" /\ pc' = "countme") =>
          \A t \in Added(totals, totals') : t.sys_age >= 0 /\ t.hits = CountmeHits(t)
    /\ (pc = "unique" /\ pc' = "unique") =>
          \A t \in Added(totals, totals') : t.hits = UniqueHits(unique_rows, t)

C11_Week(table, s, w) == {r \in BagToSet(table) : Stream(r) = s /\ r.weeknum = w}

C11_All(s, w) ==
    IF s = "countme" THEN TotalsItems(RawDB_week_iter(raw, w))
    ELSE TotalsItems(RawDBU_week_iter(raw, w))

C11_Step ==
    \A s \in {"countme", "unique"}, w \in Weeks :
        \/ C11_Week(totals', s, w) = C11_Week(totals, s, w)
        \/ /\ C11_Week(totals, s, w) = {}
           /\ C11_Week(totals', s, w) = C11_All(s, w)

C12_InsertsDurable ==
    [][(pc = "parse" /\ pc' = "interrupted") =>
          raw' = IF dupcheck THEN raw (+) pending ELSE raw]_vars

\* The lines the countme matcher makes an item with a missing value of
C13_MissingValue(line) ==
    /\ regex_match("countme", line)
    /\ ~make_item_raises("countme", line)
    /\ NoneIn(make_item("countme", line))

\* C13: when parse() reads, in countme mode, a matched line whose query
\* has no repo parameter, it inserts a row for it in which the missing
\* value is replaced by a value that is not None.
C13_Normalized ==
    [][\A line \in LogLines :
          (raw_fields = "countme" /\ C13_MissingValue(line) /\ ParseLine(line)) =>
              \E r \in Added(pending, pending') :
                  /\ r.timestamp = line.time /\ r.host = line.host
                  /\ r.repo_tag # None]_vars

C15_HasItemExact ==
    \A line \in LogLines :
        (raw_fields # "none" /\ regex_match(raw_fields, line)
            /\ ~make_item_raises(raw_fields, line)) =>
            (has_item(Table, make_item(raw_fields, line))
                <=> BagIn(make_item(raw_fields, line), Table))

C16_Empty(s) == raw_fields = "countme" /\ StreamTimes(s) = {}

C16_NoValue ==
    /\ C16_Empty("countme") =>
          /\ mintime_countme(raw) = <<>> /\ maxtime_countme(raw) = <<>>
          /\ RawDB_complete_weeks(raw) = <<>>
    /\ C16_Empty("unique") =>
          /\ mintime_unique(raw) = <<>> /\ maxtime_unique(raw) = <<>>
          /\ RawDBU_complete_weeks(raw) = <<>>

\* A running totals() has a next step: nothing raised.
C16_Continues ==
    pc \in {"countme", "unique"} =>
        ENABLED (TotalsWeek \/ TotalsBeginUnique \/ TotalsWeekUnique \/ TotalsEnd)

C16_Step == \A t \in Added(totals, totals') : ~C16_Empty(Stream(t))

C17_Aggregating == pc \in {"countme", "unique", "write_countme", "write_unique"}

C17_Raises ==
    \A fields \in {<<>>, MirrorItem_fields, CountmeItem_fields} :
        (fields = <<>> \/ fields # CountmeItem_fields)
            <=> ItemReader_init(fields, CountmeItem_fields) # "ok"

C17_Opened ==
    /\ C17_Aggregating => get_fields = CountmeItem_fields
    /\ (Idle /\ get_fields # CountmeItem_fields) => ENABLED TotalsReaderError

C17_Step ==
    (Idle /\ get_fields # CountmeItem_fields) =>
        /\ ~C17_Aggregating'
        /\ pc' = "error" => UNCHANGED <<raw_fields, raw, pending, totals, tpending, new_weeks>>

\* C17: the construction of a reader raises ReaderError exactly when the
\* table has no columns or columns other than the fields of the item
\* tuple; totals() over such a countme_raw ends with the error, with no
\* row read or written and no week computed, and never aggregates.
C17_ReaderError == [](C17_Raises /\ C17_Opened) /\ [][C17_Step]_vars

\* totals() ended with ReaderError on a table of MirrorItem rows.
C17_Witness == pc = "error" /\ raw_fields = "mirrors" /\ raw # EmptyBag

C18_Hits(variant) ==
    {r \in BagToSet(raw) : InWeek(r, ScenarioWeek) /\ r.os_variant = variant}

\* The raw table of the scenario: countme hits only, each stored once, two
\* on workstation and one on server in week 2900, the others later, the
\* newest at least LOG_JITTER_WINDOW past the end of week 2900.
C18_Given ==
    /\ raw_fields = "countme"
    /\ \A r \in BagToSet(raw) :
          /\ r.sys_age >= 0 /\ CopiesIn(r, raw) = 1
          /\ r.timestamp >= week_start(ScenarioWeek)
    /\ Cardinality(C18_Hits("workstation")) = 2
    /\ Cardinality(C18_Hits("server")) = 1
    /\ MaxOf(StreamTimes("countme")) >= week_start(ScenarioWeek + 1) + LOG_JITTER_WINDOW

C18_Rows(table) == {r \in BagToSet(table) : r.weeknum = ScenarioWeek}

C18_Row(hits, variant) ==
    [hits |-> hits, weeknum |-> ScenarioWeek, os_name |-> "Fedora", os_version |-> "38",
     os_variant |-> variant, os_arch |-> "x86_64", sys_age |-> 1, repo_tag |-> "f38",
     repo_arch |-> "x86_64"]

C18_Expected(table) ==
    /\ C18_Rows(table) = {C18_Row(2, "workstation"), C18_Row(1, "server")}
    /\ \A r \in C18_Rows(table) : CopiesIn(r, table) = 1

C18_Step ==
    C18_Given =>
       /\ (Idle /\ pc' = "countme" /\ totals = EmptyBag) => Head(new_weeks') = ScenarioWeek
       /\ (pc = "countme" /\ new_weeks # <<>> /\ totals = EmptyBag) => C18_Expected(totals')
       /\ C18_Expected(totals) => C18_Expected(totals')

C19_RoundTrip ==
    /\ w_out # <<>> => weeknum(t_in) = w_out[1]
    /\ \A w \in WeekNums : weeknum(weeknum2tm(w)) = w /\ weeknum(week_start(w)) = w
    /\ \A t \in WeekTimes : weeknum(week_start(weeknum(t))) = weeknum(t)

\* weeknum2tm() has been applied to the week of a timestamp before the
\* epoch.
C19_Witness == w_out # <<>> /\ w_out[1] < 0 /\ t_in = weeknum2tm(w_out[1])

\* C20: weeknum() does not decrease with the timestamp, a timestamp lies
\* in the WEEK_LEN = 604800 seconds that start with its week, before the
\* epoch as well (floor division), and the week of the epoch is 0.
C20_Partition ==
    /\ WEEK_LEN = 604800
    /\ weeknum(COUNTME_EPOCH) = 0
    /\ weeknum(COUNTME_EPOCH - 1) = -1
    /\ w_out # <<>> =>
          /\ week_start(w_out[1]) <= t_in
          /\ t_in < week_start(w_out[1]) + WEEK_LEN
          /\ \A u \in WeekTimes :
                /\ u <= t_in => weeknum(u) <= w_out[1]
                /\ u >= t_in => weeknum(u) >= w_out[1]

\* weeknum() has returned the week of a timestamp that is before the
\* epoch and is not the start of a week.
C20_Witness == w_out # <<>> /\ t_in < COUNTME_EPOCH /\ t_in # week_start(w_out[1])

\* The fields of the query string that are occurrences of a key: the
\* text between "&" with a "=" after a name.
C21_Occurrences ==
    LET fields == IF querystr = <<>> THEN <<>> ELSE str_split(querystr, "&")
    IN SelectSeq(fields, LAMBDA f : Find(f, "=") > 1)

C21_Key(f) == SubSeq(f, 1, Find(f, "=") - 1)
C21_Value(f) == SubSeq(f, Find(f, "=") + 1, Len(f))

C21_Repeated ==
    {k \in {C21_Key(C21_Occurrences[i]) : i \in DOMAIN C21_Occurrences} :
        Cardinality({i \in DOMAIN C21_Occurrences : C21_Key(C21_Occurrences[i]) = k}) > 1}

C21_Last(k) ==
    C21_Occurrences[CHOOSE i \in DOMAIN C21_Occurrences :
        /\ C21_Key(C21_Occurrences[i]) = k
        /\ \A j \in DOMAIN C21_Occurrences : C21_Key(C21_Occurrences[j]) = k => j <= i]

\* C21: parse_querydict() maps every key that occurs more than once in
\* the query string to the value of its last occurrence.
C21_LastWins ==
    querydict # <<>> =>
        \A k \in C21_Repeated :
            /\ k \in DOMAIN querydict[1]
            /\ querydict[1][k] = C21_Value(C21_Last(k))

\* What the code does: the last occurrence with a value that is not
\* empty wins, and a key whose occurrences are all empty is absent.
C21_LastNonBlank ==
    querydict # <<>> =>
        \A k \in C21_Repeated :
            LET vals == SelectSeq(C21_Occurrences,
                                  LAMBDA f : C21_Key(f) = k /\ C21_Value(f) # <<>>)
            IN IF vals = <<>> THEN k \notin DOMAIN querydict[1]
               ELSE /\ k \in DOMAIN querydict[1]
                    /\ querydict[1][k] = C21_Value(vals[Len(vals)])

C23_Int == ("0" :> 0) @@ ("1" :> 1) @@ ("2" :> 2)

C23_Step ==
    (matcher = "countme" /\ pos' = pos + 1 /\ fileobj[pos + 1].kind = "countme") =>
        LET line == fileobj[pos + 1]
            item == yielded'[Len(yielded')]
        IN IF line.countme = "absent"
           THEN /\ Len(yielded') = Len(yielded) + 1 /\ stderr' = stderr
                /\ item.sys_age = -1
           ELSE IF line.countme \in DOMAIN C23_Int
           THEN /\ Len(yielded') = Len(yielded) + 1 /\ stderr' = stderr
                /\ item.sys_age = C23_Int[line.countme] /\ item.sys_age >= 0
           ELSE /\ yielded' = yielded
                /\ stderr' = Append(stderr, line)

\* C23: for a line the countme regex matches, CountmeMatcher.make_item
\* sets sys_age to the integer of the countme parameter, to -1 when the
\* parameter is absent; when the parameter is not an integer the line is
\* reported as malformed and no item is yielded for it.
C23_SysAge == [][C23_Step]_vars

\* A line without countme has yielded an item after a line with a countme
\* that is not an integer was reported.
C23_Witness ==
    /\ matcher = "countme" /\ pos = 2
    /\ fileobj[1].countme = "x" /\ fileobj[2].countme = "absent"
    /\ Len(stderr) = 1 /\ Len(yielded) = 1 /\ yielded[1].sys_age = -1

\* The rows a step removes from countme_raw.
C24_Deleted == {r \in BagToSet(raw) : CopiesIn(r, raw') < CopiesIn(r, raw)}

\* The start of the week (Monday 00:00 UTC) that contains max_time, minus
\* keep + 1 weeks.
C24_Cutoff(max_time, keep) == week_start(weeknum(max_time)) - (keep + 1) * WEEK_LEN

C24_Step ==
    \A rw \in BOOLEAN, keep \in Keeps, oldest_week \in BOOLEAN, unique_ip_only \in BOOLEAN :
        (TrimRaw(rw, keep, oldest_week, unique_ip_only) /\ get_mintime(raw, unique_ip_only) # <<>>) =>
            LET min_time == get_mintime(raw, unique_ip_only)[1]
                max_time == get_maxtime(raw, unique_ip_only)[1]
                cutoff == C24_Cutoff(max_time, keep)
                te == trim_end(min_time, max_time, keep, oldest_week)
            IN /\ \A r \in BagToSet(raw') : CopiesIn(r, raw') = CopiesIn(r, raw)
               /\ \A r \in C24_Deleted :
                     /\ CopiesIn(r, raw') = 0
                     /\ min_time <= r.timestamp /\ r.timestamp < te
                     /\ r.timestamp < cutoff
                     /\ unique_ip_only => r.sys_age < 0
                     /\ oldest_week => r.timestamp < week_start(weeknum(min_time) + 1)
               /\ te > cutoff => (te = min_time /\ C24_Deleted = {})
               /\ cutoff <= min_time => raw' = raw
               /\ ~rw => raw' = raw

C25_LastWeek == MaxOf({r.weeknum : r \in BagToSet(totals)})

C25_Step ==
    \A rw \in BOOLEAN :
        (DeleteTotals(rw) /\ totals # EmptyBag) =>
            /\ raw' = raw
            /\ rw => /\ \A r \in BagToSet(totals) :
                           CopiesIn(r, totals') =
                               IF r.weeknum = C25_LastWeek THEN 0 ELSE CopiesIn(r, totals)
                     /\ \A r \in BagToSet(totals') : BagIn(r, totals)
            /\ ~rw => totals' = totals

\* C25: countme-delete-totals removes exactly the rows of countme_totals
\* whose weeknum is the largest one in the table and leaves every other
\* row as it was; with --noop it deletes no row.
C25_LastWeekOnly == [][C25_Step]_vars

\* countme-delete-totals has deleted the last week of a table that held an
\* earlier week, which is still there.
C25_Witness ==
    /\ before # <<>> /\ totals # EmptyBag
    /\ \E r \in BagToSet(before[1]) : ~BagIn(r, totals)
    /\ \A r \in BagToSet(totals) : BagIn(r, before[1])

C26_Continues ==
    [][/\ (preproc = "none" /\ preproc' = "original") => pc' = "parse"
       /\ (preproc = "original" /\ nlines' > nlines) => \E l \in PreLines : ~grep_countme(l) /\ ParseLine(l)
       /\ (preproc = "original" /\ preproc' = "none") =>
             (pc' = "parse" /\ ENABLED (\E returncode \in {0, 1} : pre_process(returncode)))]_vars

\* What holds of the first half: the original file is what is read after
\* grep failed.
C26_ReadsOriginal ==
    [][/\ (preproc = "none" /\ preproc' = "original") => pc' = "parse"
       /\ (preproc = "original" /\ nlines' > nlines) => \E l \in PreLines : ~grep_countme(l) /\ ParseLine(l)]_vars

\* C27: when a parse() run with dupcheck ends normally, every record it
\* inserted is committed to countme_raw, with the index argument on or
\* off.
C27_CommittedAtEnd ==
    [][(pc = "parse" /\ dupcheck /\ pc' = "idle") => raw' = raw (+) pending]_vars

C28_Ascending(weeks) == \A i, j \in DOMAIN weeks : i < j => weeks[i] < weeks[j]

C28_StreamWeeks(unique) ==
    {r.weeknum : r \in {x \in BagToSet(totals) : (x.sys_age < 0) = unique}}

C28_Step ==
    /\ pc' \in {"countme", "unique"} => C28_Ascending(new_weeks')
    /\ pc' \in {"write_countme", "write_unique"} /\ pc \in {"countme", "unique"} =>
          /\ \A w \in C28_StreamWeeks(pc = "unique") : w < Head(new_weeks)
          /\ towrite' = TotalsItems(IF pc = "unique"
                                    THEN RawDBU_week_iter(raw, Head(new_weeks))
                                    ELSE RawDB_week_iter(raw, Head(new_weeks)))
    /\ pc' \in {"unique", "write_unique"} =>
          \/ pc \in {"unique", "write_unique"}
          \/ pc = "countme" /\ new_weeks = <<>>
    /\ (TotalsEnd /\ uninterrupted # <<>> /\ uninterrupted[1] = raw) =>
          totals' = uninterrupted[2]

C29_Slice(w, d) ==
    {r \in BagToSet(raw) :
        /\ week_start(w) + d * 86400 <= r.timestamp
        /\ r.timestamp < week_start(w) + (d + 1) * 86400}

C29_Hosts(w, d, t) == {r.host : r \in {x \in C29_Slice(w, d) : SameClient(x, t)}}

RECURSIVE C29_Sum(_, _, _)
C29_Sum(w, d, t) ==
    IF d > 6 THEN 0 ELSE Cardinality(C29_Hosts(w, d, t)) + C29_Sum(w, d + 1, t)

C29_Partition(w) ==
    LET slices == SplitWeekDays_slices(week_start(w), 0)
    IN /\ Len(slices) = 7
       /\ slices[1][1] = week_start(w)
       /\ slices[7][2] = week_start(w) + WEEK_LEN
       /\ \A i \in 1..7 : slices[i][2] = slices[i][1] + 86400
       /\ \A i \in 1..6 : slices[i + 1][1] = slices[i][2]

C29_Step ==
    (pc = "unique" /\ pc' = "unique") =>
        LET w == Head(new_weeks)
            written == Added(totals, totals')
        IN /\ C29_Partition(w)
           /\ \A t \in written :
                 /\ t.weeknum = w
                 /\ t.sys_age = -1
                 /\ t.hits = C29_Sum(w, 0, t)
                 /\ CopiesIn(t, totals') = CopiesIn(t, totals) + 1
           /\ \A r \in BagToSet(raw) :
                 InWeek(r, w) => \E t \in written : SameClient(r, t)

=============================================================================
